---------------------------- MODULE Spec2Model ----------------------------
(***************************************************************************)
(* A model of rxl, a small spreadsheet-formula engine: the tokenizer       *)
(* (tokenizer.rs), the recursive-descent parser (parser.rs), the AST       *)
(* evaluator (ast.rs), cell construction (cell.rs) and the table driver    *)
(* with memoization and cycle detection (table.rs).                        *)
(*                                                                         *)
(* Conventions.  A character is a one-character string and a source text   *)
(* a sequence of characters.  Rust's Result is <<"Ok", v>> or              *)
(* <<"Err", e>>, Option is <<"None">> or <<"Some", x>>; enum values are    *)
(* tuples that start with the variant's name.  A BigDecimal is <<m, s>>,   *)
(* the number m * 10^(-s), kept normalised so that numeric equality is     *)
(* equality of tuples.                                                     *)
(***************************************************************************)
EXTENDS Integers, Sequences, FiniteSets, TLC

VARIABLES
    pc,       \* "start" | "ready" | "failed" | "panicked"; "idle" under LexSpec
    source,   \* the text handed to Table::new_interpet
    rows,     \* Table.rows
    cols,     \* Table.cols
    cells,    \* Table.cells, the flat store (1-based here, 0-based in Rust)
    panic,    \* "none", or why the process aborted
    evals,    \* per slot: how many times its expression was evaluated
    writes,   \* per slot: how many times its cache entry was written
    aliased,  \* evaluate_cell resolved an out-of-table coordinate to a slot
    leaked,   \* evaluate_cell got a chain holding a non-ancestor coordinate
    reentered,\* an expression was evaluated while it was mid-evaluation
    maxDepth, \* the largest number of nested evaluate_cell frames so far
    calls,    \* number of API calls made on the table so far
    last,     \* the last API call and what it returned
    log,      \* the lookups and the evaluations of the last API call
    lexIn,    \* the slice a Tokenizer was created on
    lexSrc,   \* Tokenizer.source, the slice still to be read
    lexOut,   \* the items the Tokenizer has yielded so far
    lexDone,  \* the Tokenizer has returned None
    parseTree,\* the tree the token sequence given to a Parser was written from
    parseIn,  \* the items of the iterator a Parser was created on
    parseOut  \* what Parser::ast returned, once it was called

tableVars == <<pc, source, rows, cols, cells, panic, evals, writes, aliased,
               leaked, reentered, maxDepth, calls, last, log>>
lexVars == <<lexIn, lexSrc, lexOut, lexDone>>
parseVars == <<parseTree, parseIn, parseOut>>
vars == <<pc, source, rows, cols, cells, panic, evals, writes, aliased,
          leaked, reentered, maxDepth, calls, last, log, lexIn, lexSrc,
          lexOut, lexDone, parseTree, parseIn, parseOut>>

-----------------------------------------------------------------------------
(* Result and Option *)

Ok(v) == <<"Ok", v>>
Err(e) == <<"Err", e>>
IsOk(r) == r[1] = "Ok"
IsErr(r) == r[1] = "Err"
None == <<"None">>
Some(x) == <<"Some", x>>
IsSome(o) == o[1] = "Some"
IsNone(o) == o[1] = "None"

(* error.rs: TableError *)
MismatchedColumns == <<"MismatchedColumns">>
EmptyTable == <<"EmptyTable">>
InvalidCell(msg) == <<"InvalidCell", msg>>
ErrorConstructingAst(msg) == <<"ErrorConstructingAst", msg>>
RuntimeError(msg) == <<"RuntimeError", msg>>
RecursiveCellExpr(col, row) == <<"RecursiveCellExpr", col, row>>
EmptyCellEvaluation == <<"EmptyCellEvaluation">>
MultipleCellReturn == <<"MultipleCellReturn">>

-----------------------------------------------------------------------------
(* Characters *)

LowerCase == <<"a", "b", "c", "d", "e", "f", "g", "h", "i", "j", "k", "l", "m",
               "n", "o", "p", "q", "r", "s", "t", "u", "v", "w", "x", "y", "z">>
UpperCase == <<"A", "B", "C", "D", "E", "F", "G", "H", "I", "J", "K", "L", "M",
               "N", "O", "P", "Q", "R", "S", "T", "U", "V", "W", "X", "Y", "Z">>
Digits == <<"0", "1", "2", "3", "4", "5", "6", "7", "8", "9">>

Range(s) == {s[i] : i \in DOMAIN s}

\* char::is_ascii_alphabetic and char::is_alphabetic (the model has ASCII only)
AsciiAlphabetic == Range(LowerCase) \cup Range(UpperCase)
\* char::is_numeric (the model has the ASCII digits only)
Numeric == Range(Digits)
\* char::is_whitespace
Whitespace == {" ", "\t", "\n"}

\* char::to_ascii_lowercase
ToAsciiLowercase(c) ==
    IF c \in Range(UpperCase)
    THEN LowerCase[CHOOSE i \in DOMAIN UpperCase : UpperCase[i] = c]
    ELSE c

\* the letter counted from zero: c.to_ascii_lowercase() as usize - 97
LetterValueFromZero(c) ==
    (CHOOSE i \in DOMAIN LowerCase : LowerCase[i] = ToAsciiLowercase(c)) - 1

\* c.to_ascii_lowercase() as usize - 96, for a letter c
LetterValue(c) ==
    CHOOSE i \in DOMAIN LowerCase : LowerCase[i] = ToAsciiLowercase(c)

\* the value of a digit character
DigitValue(c) == (CHOOSE i \in DOMAIN Digits : Digits[i] = c) - 1

RECURSIVE Pow(_, _)
Pow(b, n) == IF n = 0 THEN 1 ELSE b * Pow(b, n - 1)

-----------------------------------------------------------------------------
(* BigDecimal: <<m, s>> is m * 10^(-s) *)

RECURSIVE DecNorm(_)
DecNorm(d) ==
    IF d[2] > 0 /\ d[1] % 10 = 0 THEN DecNorm(<<d[1] \div 10, d[2] - 1>>)
    ELSE IF d[1] = 0 THEN <<0, 0>>
    ELSE d

DecOfInt(n) == <<n, 0>>
DecIsZero(d) == d[1] = 0

DecScaleTo(d, s) == d[1] * Pow(10, s - d[2])
DecMaxScale(a, b) == IF a[2] >= b[2] THEN a[2] ELSE b[2]

DecAdd(a, b) ==
    LET s == DecMaxScale(a, b)
    IN DecNorm(<<DecScaleTo(a, s) + DecScaleTo(b, s), s>>)
DecSub(a, b) ==
    LET s == DecMaxScale(a, b)
    IN DecNorm(<<DecScaleTo(a, s) - DecScaleTo(b, s), s>>)
DecMul(a, b) == DecNorm(<<a[1] * b[1], a[2] + b[2]>>)
DecNeg(a) == <<0 - a[1], a[2]>>

\* a / b for b # 0: exact when the quotient has at most 6 more fractional
\* digits, and cut after them otherwise (BigDecimal cuts after 100 digits)
DecDiv(a, b) ==
    LET ks == {k \in 0..6 : (a[1] * Pow(10, k)) % b[1] = 0}
        k == IF ks = {} THEN 6 ELSE CHOOSE x \in ks : \A y \in ks : x <= y
        q == (a[1] * Pow(10, k)) \div b[1]
        s == k + a[2] - b[2]
    IN IF s >= 0 THEN DecNorm(<<q, s>>) ELSE DecNorm(<<q * Pow(10, 0 - s), 0>>)

RECURSIVE DigitsValue(_)
DigitsValue(ds) ==
    IF ds = <<>> THEN 0
    ELSE 10 * DigitsValue(SubSeq(ds, 1, Len(ds) - 1)) + DigitValue(ds[Len(ds)])

\* BigDecimal::from_str on the texts the model can build: digits, then
\* optionally "." and digits
DecFromStr(str) ==
    LET n == CHOOSE k \in 0..Len(str) :
                 /\ \A i \in 1..k : str[i] \in Numeric
                 /\ k = Len(str) \/ str[k + 1] \notin Numeric
        frac == SubSeq(str, n + 2, Len(str))
    IN IF n = 0 THEN Err("ParseBigDecimalError")
       ELSE IF n = Len(str) THEN Ok(DecOfInt(DigitsValue(str)))
       ELSE IF str[n + 1] = "." /\ \A i \in DOMAIN frac : frac[i] \in Numeric
       THEN Ok(DecNorm(<<DigitsValue(SubSeq(str, 1, n) \o frac), Len(frac)>>))
       ELSE Err("ParseBigDecimalError")

-----------------------------------------------------------------------------
(* tokenizer.rs: Token *)

Number(d) == <<"Number", d>>
CellRef(col, row) == <<"CellRef", col, row>>
\* CellRange((Range {start: cs, end: ce}, Range {start: rs, end: re}))
CellRange(cs, ce, rs, re) == <<"CellRange", cs, ce, rs, re>>
Comma == <<"Comma">>
Sum == <<"Sum">>
Plus == <<"Plus">>
Slash == <<"Slash">>
Minus == <<"Minus">>
Star == <<"Star">>
LeftParen == <<"LeftParen">>
RightParen == <<"RightParen">>

is_number(t) == t[1] = "Number"
is_cell_ref(t) == t[1] = "CellRef"
is_cell_range(t) == t[1] = "CellRange"
is_builtin_fn(t) == t[1] = "Sum"

\* impl TryFrom<char> for Token
TokenTryFrom(c) ==
    CASE c = "+" -> Ok(Plus)
      [] c = "-" -> Ok(Minus)
      [] c = "/" -> Ok(Slash)
      [] c = "*" -> Ok(Star)
      [] c = "(" -> Ok(LeftParen)
      [] c = ")" -> Ok(RightParen)
      [] c = "," -> Ok(Comma)
      [] OTHER -> Err(InvalidCell("Unknown character encountered"))

-----------------------------------------------------------------------------
(* tokenizer.rs: Tokenizer.  The tokenizer's state is its remaining slice;  *)
(* an operation that reads returns [res, src]: its result and the slice     *)
(* left.                                                                    *)

\* v, then F of it: the sequencing of "let v = ...;" in the source
Then(v, F(_)) == F(v)

at_end(src) == src = <<>>

\* the length of the longest prefix of src whose characters are all in set
peek_while(src, set) ==
    CHOOSE n \in 0..Len(src) :
        /\ \A i \in 1..n : src[i] \in set
        /\ n = Len(src) \/ src[n + 1] \notin set

chop(src, n) == [res |-> SubSeq(src, 1, n), src |-> SubSeq(src, n + 1, Len(src))]

chop_while(src, set) == chop(src, peek_while(src, set))

chop_while_or_else(src, set, err) ==
    Then(peek_while(src, set), LAMBDA n :
        IF n = 0 THEN [res |-> Err(err), src |-> src]
        ELSE [res |-> Ok(SubSeq(src, 1, n)), src |-> SubSeq(src, n + 1, Len(src))])

strip_left(src) == chop_while(src, Whitespace).src

peek_match(src, set) == IF at_end(src) THEN FALSE ELSE src[1] \in set

\* the end of Tokenizer::number: the text read is parsed as a BigDecimal
number_token(string_num, src) ==
    Then(DecFromStr(string_num), LAMBDA decimal :
        [res |-> IF IsOk(decimal) THEN Ok(Number(decimal[2]))
                 ELSE Err(InvalidCell("Could not format as a valid number")),
         src |-> src])

\* Tokenizer::number
number(src) ==
    Then(chop_while(src, Numeric), LAMBDA int :
        IF ~at_end(int.src) /\ int.src[1] = "."
        THEN Then(chop_while(chop(int.src, 1).src, Numeric), LAMBDA frac :
                 number_token(int.res \o <<".">> \o frac.res, frac.src))
        ELSE number_token(int.res, int.src))

\* the column of a run of letters: sum of col_ref * base.pow(i), i counted
\* from the last letter
RECURSIVE ColumnValue(_)
ColumnValue(letters) ==
    IF letters = <<>> THEN 0
    ELSE LetterValue(letters[Len(letters)])
         + 26 * ColumnValue(SubSeq(letters, 1, Len(letters) - 1))

\* Tokenizer::parse_cell_reference
parse_cell_reference(src) ==
    Then(chop_while_or_else(src, AsciiAlphabetic,
                            InvalidCell("Could not parse cell reference")),
         LAMBDA column_slice :
        IF IsErr(column_slice.res) THEN column_slice
        ELSE Then(chop_while_or_else(column_slice.src, Numeric,
                                     InvalidCell("Could not parse cell reference")),
                  LAMBDA row_slice :
            IF IsErr(row_slice.res) THEN row_slice
            ELSE IF DigitsValue(row_slice.res[2]) = 0
            THEN [res |-> Err(InvalidCell("Could not parse cell reference")),
                  src |-> row_slice.src]
            ELSE [res |-> Ok(<<ColumnValue(column_slice.res[2]) - 1,
                               DigitsValue(row_slice.res[2]) - 1>>),
                  src |-> row_slice.src]))

\* the CellRange token built from the two corners, in the order they were read
MakeRange(col, row, next_col, next_row) ==
    CellRange(col, next_col + 1, row, next_row + 1)

\* the part of Tokenizer::cell_reference after a ':' was seen
cell_range(col, row, src) ==
    Then(parse_cell_reference(chop(src, 1).src), LAMBDA second :
        IF IsErr(second.res)
        THEN [res |-> Err(InvalidCell("Invalid cell range")), src |-> second.src]
        ELSE [res |-> Ok(MakeRange(col, row, second.res[2][1], second.res[2][2])),
              src |-> second.src])

\* Tokenizer::cell_reference
cell_reference(src) ==
    Then(parse_cell_reference(src), LAMBDA first :
        IF IsErr(first.res) THEN first
        ELSE IF ~peek_match(first.src, {":"})
        THEN [res |-> Ok(CellRef(first.res[2][1], first.res[2][2])), src |-> first.src]
        ELSE cell_range(first.res[2][1], first.res[2][2], first.src))

\* literal that leaves the word sum in the source
LiteralWithoutChop(src) ==
    IF [i \in 1..peek_while(src, AsciiAlphabetic) |-> ToAsciiLowercase(src[i])]
           = <<"s", "u", "m">>
    THEN [res |-> Ok(Sum), src |-> src]
    ELSE cell_reference(src)

\* Tokenizer::literal
literal(src) ==
    LET n == peek_while(src, AsciiAlphabetic)
        word == [i \in 1..n |-> ToAsciiLowercase(src[i])]
    IN IF word = <<"s", "u", "m">>
       THEN [res |-> Ok(Sum), src |-> chop(src, n).src]
       ELSE cell_reference(src)

\* the match of Tokenizer::next_token on self.source[0]
token_at(src) ==
    IF src[1] \in AsciiAlphabetic THEN literal(src)
    ELSE IF src[1] \in Numeric THEN number(src)
    ELSE [res |-> TokenTryFrom(src[1]), src |-> SubSeq(src, 2, Len(src))]

\* Tokenizer::next_token: [res |-> None, ...] at the end of the input, else
\* [res |-> Some(Ok(token)) or Some(Err(e)), ...]
next_token(src0) ==
    Then(strip_left(src0), LAMBDA src :
        IF at_end(src) THEN [res |-> None, src |-> src]
        ELSE Then(token_at(src), LAMBDA token :
                 [res |-> Some(token.res), src |-> token.src]))

-----------------------------------------------------------------------------
(* ast.rs: Expr *)

Binary(left, operator, right) == <<"Binary", left, operator, right>>
Grouping(expr) == <<"Grouping", expr>>
Literal(token) == <<"Literal", token>>
Unary(operator, right) == <<"Unary", operator, right>>
\* Expr::call, as parser.rs builds it
Call(callee, arguments) == <<"Call", callee, arguments>>

-----------------------------------------------------------------------------
(* parser.rs: Parser.  The parser reads any iterator of TableResult<Token>; *)
(* the iterator is modelled by the sequence of the items it has yet to      *)
(* yield.  The parser's state is [iterator, current, previous]; a parsing   *)
(* method returns [res, p]: its result and the parser's state after it.     *)

\* the items Tokenizer yields on src, as Iterator::next is called until None
RECURSIVE Tokens(_)
Tokens(src) ==
    Then(next_token(src), LAMBDA nt :
        IF IsNone(nt.res) THEN <<>> ELSE <<nt.res[2]>> \o Tokens(nt.src))

\* Parser::new
ParserNew(iterator) == [iterator |-> iterator, current |-> None, previous |-> None]

\* Parser::get_previous_token
get_previous_token(p) ==
    IF IsSome(p.previous) THEN Ok(p.previous[2])
    ELSE Err(ErrorConstructingAst("Error returning previous token"))

\* Parser::advance
advance(p) ==
    LET moved == [p EXCEPT !.previous = p.current,
                           !.iterator = SubSeq(@, 2, Len(@))]
    IN IF p.iterator = <<>>
       THEN [res |-> Ok(TRUE), p |-> [moved EXCEPT !.current = None]]
       ELSE IF IsErr(p.iterator[1]) THEN [res |-> p.iterator[1], p |-> moved]
       ELSE [res |-> Ok(TRUE), p |-> [moved EXCEPT !.current = Some(p.iterator[1][2])]]

\* Parser::advance_match, for the predicate "the token's variant is in tags";
\* res is Ok(TRUE), Ok(FALSE) or the iterator's error
advance_match(p, tags) ==
    IF IsSome(p.current) /\ p.current[2][1] \in tags THEN advance(p)
    ELSE [res |-> Ok(FALSE), p |-> p]

\* Parser::consume_or
consume_or(p, tags, err) ==
    IF IsSome(p.current) /\ p.current[2][1] \in tags THEN advance(p)
    ELSE [res |-> Err(err), p |-> p]

RECURSIVE expression(_), term(_), term_loop(_, _), factor(_), factor_loop(_, _),
          unary(_), call(_), call_loop(_, _), generate_call(_, _),
          arguments_loop(_, _), primary(_)

\* Parser::expression
expression(p) == term(p)

\* Parser::term
term(p) ==
    Then(factor(p), LAMBDA first :
        IF IsErr(first.res) THEN first ELSE term_loop(first.p, first.res[2]))

\* the loop of Parser::term, entered with the tree built so far
term_loop(p, expr) ==
    Then(advance_match(p, {"Minus", "Plus"}), LAMBDA m :
        IF IsErr(m.res) THEN m
        ELSE IF ~m.res[2] THEN [res |-> Ok(expr), p |-> m.p]
        ELSE Then(get_previous_token(m.p), LAMBDA operator :
            IF IsErr(operator) THEN [res |-> operator, p |-> m.p]
            ELSE Then(factor(m.p), LAMBDA right :
                IF IsErr(right.res) THEN right
                ELSE term_loop(right.p, Binary(expr, operator[2], right.res[2])))))

\* a factor whose first operand is a call: no minus sign before a product
FactorOfCalls(p) ==
    Then(call(p), LAMBDA first :
        IF IsErr(first.res) THEN first ELSE factor_loop(first.p, first.res[2]))

\* Parser::factor
factor(p) ==
    Then(unary(p), LAMBDA first :
        IF IsErr(first.res) THEN first ELSE factor_loop(first.p, first.res[2]))

\* the loop of Parser::factor
factor_loop(p, expr) ==
    Then(advance_match(p, {"Slash", "Star"}), LAMBDA m :
        IF IsErr(m.res) THEN m
        ELSE IF ~m.res[2] THEN [res |-> Ok(expr), p |-> m.p]
        ELSE Then(get_previous_token(m.p), LAMBDA operator :
            IF IsErr(operator) THEN [res |-> operator, p |-> m.p]
            ELSE Then(unary(m.p), LAMBDA right :
                IF IsErr(right.res) THEN right
                ELSE factor_loop(right.p, Binary(expr, operator[2], right.res[2])))))

\* Parser::unary
unary(p) ==
    Then(advance_match(p, {"Minus"}), LAMBDA m :
        IF IsErr(m.res) THEN m
        ELSE IF ~m.res[2] THEN call(p)
        ELSE Then(get_previous_token(m.p), LAMBDA operator :
            IF IsErr(operator) THEN [res |-> operator, p |-> m.p]
            ELSE Then(unary(m.p), LAMBDA right :
                IF IsErr(right.res) THEN right
                ELSE [res |-> Ok(Unary(operator[2], right.res[2])), p |-> right.p])))

\* Parser::call
call(p) ==
    Then(primary(p), LAMBDA first :
        IF IsErr(first.res) THEN first ELSE call_loop(first.p, first.res[2]))

\* the while loop of Parser::call
call_loop(p, expr) ==
    Then(advance_match(p, {"LeftParen"}), LAMBDA m :
        IF IsErr(m.res) THEN m
        ELSE IF ~m.res[2] THEN [res |-> Ok(expr), p |-> m.p]
        ELSE Then(generate_call(m.p, expr), LAMBDA made :
            IF IsErr(made.res) THEN made ELSE call_loop(made.p, made.res[2])))

\* Parser::generate_call
generate_call(p, calle) ==
    Then(arguments_loop(p, <<>>), LAMBDA args :
        IF IsErr(args.res) THEN args
        ELSE Then(consume_or(args.p, {"RightParen"},
                             ErrorConstructingAst("Expect ')' after arguments")),
                  LAMBDA closed :
            IF IsErr(closed.res) THEN closed
            ELSE [res |-> Ok(Call(calle, args.res[2])), p |-> closed.p]))

\* the loop of Parser::generate_call that collects the arguments
arguments_loop(p, arguments) ==
    Then(expression(p), LAMBDA arg :
        IF IsErr(arg.res) THEN arg
        ELSE Then(advance_match(arg.p, {"Comma"}), LAMBDA m :
            IF IsErr(m.res) THEN m
            ELSE IF ~m.res[2] THEN [res |-> Ok(Append(arguments, arg.res[2])), p |-> m.p]
            ELSE arguments_loop(m.p, Append(arguments, arg.res[2]))))

\* the branch of Parser::primary taken after a '(' was matched
primary_group(p) ==
    Then(expression(p), LAMBDA inner :
        IF IsErr(inner.res) THEN inner
        ELSE Then(consume_or(inner.p, {"RightParen"},
                             ErrorConstructingAst("Expected ')' after expression")),
                  LAMBDA closed :
            IF IsErr(closed.res) THEN closed
            ELSE [res |-> Ok(Grouping(inner.res[2])), p |-> closed.p]))

\* Parser::primary
primary(p) ==
    Then(advance_match(p, {"Number", "CellRef", "Sum", "CellRange"}), LAMBDA lit :
        IF IsErr(lit.res) THEN lit
        ELSE IF lit.res[2]
        THEN Then(get_previous_token(lit.p), LAMBDA token :
                 IF IsErr(token) THEN [res |-> token, p |-> lit.p]
                 ELSE [res |-> Ok(Literal(token[2])), p |-> lit.p])
        ELSE Then(advance_match(p, {"LeftParen"}), LAMBDA open :
                 IF IsErr(open.res) THEN open
                 ELSE IF open.res[2] THEN primary_group(open.p)
                 ELSE [res |-> Err(ErrorConstructingAst(
                                       "Invalid primary expression token")),
                       p |-> p]))

\* Parser::ast
ast(p) ==
    Then(advance(p), LAMBDA first :
        IF IsErr(first.res) THEN first ELSE expression(first.p))

-----------------------------------------------------------------------------
(* cell.rs: CellKind and Cell.  A construction that hits unimplemented!()   *)
(* is the third outcome <<"Panic", why>>.                                   *)

Panic(why) == <<"Panic", why>>
IsPanic(r) == r[1] = "Panic"

KindEmpty == <<"Empty">>
\* CellKind::Expr { expr, result }
KindExpr(expr, result) == <<"Expr", expr, result>>
\* CellKind::Number(d)
KindNumber(d) == <<"Number", d>>

\* CellKind::new_expr
CellKindNewExpr(expr) == KindExpr(expr, None)
\* CellKind::new_number
CellKindNewNumber(d) == KindNumber(d)

Cell(src, kind) == [source |-> src, kind |-> kind]

\* cell.rs parse_expr
parse_expr(token_stream) ==
    Then(ast(ParserNew(Tokens(token_stream))).res, LAMBDA tree :
        IF IsOk(tree) THEN Ok(CellKindNewExpr(tree[2])) ELSE tree)

\* cell.rs parse_number
parse_number(num) ==
    Then(DecFromStr(num), LAMBDA d :
        IF IsOk(d) THEN Ok(CellKindNewNumber(d[2]))
        ELSE Err(InvalidCell("Could not format as a valid number")))

\* what Cell::new_expr does with a text whose first character is neither
\* '=' nor numeric: unimplemented!("Unimplemented cell kind")
OtherCellKind(src) == Panic("not implemented: Unimplemented cell kind")

\* Cell::new_expr
CellNewExpr(src) ==
    Then(IF Len(src) = 0 THEN Ok(KindEmpty)
         ELSE IF src[1] = "=" THEN parse_expr(SubSeq(src, 2, Len(src)))
         ELSE IF src[1] \in Numeric THEN parse_number(src)
         ELSE OtherCellKind(src),
         LAMBDA kind : IF IsOk(kind) THEN Ok(Cell(src, kind[2])) ELSE kind)

-----------------------------------------------------------------------------
(* table.rs: Table::new_interpet *)

\* str::split(sep): the pieces of s between the separators, at least one
RECURSIVE Split(_, _)
Split(s, sep) ==
    IF \A i \in DOMAIN s : s[i] # sep THEN <<s>>
    ELSE LET k == CHOOSE i \in DOMAIN s :
                      s[i] = sep /\ \A j \in 1..(i - 1) : s[j] # sep
         IN <<SubSeq(s, 1, k - 1)>> \o Split(SubSeq(s, k + 1, Len(s)), sep)

\* str::lines(): the pieces between line feeds, without a last empty piece
Lines(s) ==
    Then(Split(s, "\n"), LAMBDA parts :
        IF parts[Len(parts)] = <<>> THEN SubSeq(parts, 1, Len(parts) - 1)
        ELSE parts)

\* the inner loop of new_interpet: the cells of one line pushed onto cells,
\* or the panic of the first cell that cannot be built
RECURSIVE PushRow(_, _)
PushRow(cs, texts) ==
    IF texts = <<>> THEN Ok(cs)
    ELSE Then(CellNewExpr(texts[1]), LAMBDA cell :
             IF IsPanic(cell) THEN cell
             ELSE PushRow(Append(cs, cell), SubSeq(texts, 2, Len(texts))))

\* the outer loop of new_interpet over the lines still to be read
RECURSIVE NewInterpetLoop(_, _, _, _)
NewInterpetLoop(lines, cs, rowsN, previous_cols) ==
    IF lines = <<>>
    THEN IF IsNone(previous_cols) THEN Err(EmptyTable)
         ELSE Ok([rows |-> rowsN, cols |-> previous_cols[2], cells |-> cs])
    ELSE Then(Split(lines[1], "|"), LAMBDA texts :
             Then(PushRow(cs, texts), LAMBDA pushed :
                 IF IsPanic(pushed) THEN pushed
                 ELSE IF IsSome(previous_cols) /\ previous_cols[2] # Len(texts)
                 THEN Err(MismatchedColumns)
                 ELSE NewInterpetLoop(SubSeq(lines, 2, Len(lines)), pushed[2],
                                      rowsN + 1, Some(Len(texts)))))

\* Table::new_interpet
new_interpet(src) == NewInterpetLoop(Lines(src), <<>>, 0, None)

-----------------------------------------------------------------------------
(* table.rs and ast.rs: evaluation.                                         *)
(*                                                                          *)
(* Evaluation reads and writes the table while it recurses, so every        *)
(* operation takes the table t and returns [t, res]: the table after it and *)
(* its result.  Besides rows, cols and cells, t carries what an observer of *)
(* the run would record: panic ("none" until the process aborts; nothing    *)
(* runs after that), evals and writes (per slot), stack (the coordinates of *)
(* the evaluate_cell frames now on the call stack), active (the slots whose *)
(* expression is now being evaluated), and the flags aliased, leaked,       *)
(* reentered and the number maxDepth described at the variables.            *)

Panicked(t) == t.panic # "none"
Abort(t, why) == [t |-> [t EXCEPT !.panic = why], res |-> Panic(why)]

\* the index with the roles of the column and the row exchanged
IdxRowFirst(rowsN, col, row) == row * rowsN + col

\* the index expression of table.rs: (col * self.rows + row)
Idx(rowsN, col, row) == col * rowsN + row

\* !call_chain.insert((col, row)) is true: the coordinate is in the chain
InChain(call_chain, col, row) == <<col, row>> \in call_chain

\* the cycle error with its coordinate written row first
CycleErrorRowFirst(col, row) == Err(RecursiveCellExpr(row, col))

\* Err(TableError::RecursiveCellExpr((col, row)))
CycleError(col, row) == Err(RecursiveCellExpr(col, row))

\* the chain the lookup closure of evaluate_cell passes on: call_chain.clone()
\* after the insert
LookupChain(call_chain, col, row) == call_chain \cup {<<col, row>>}

\* the chain the lookup closure of run passes on: HashSet::new()
RunChain(col, row) == {}

\* match res.len() { 1 => res[0].clone(), _ => Err(MultipleCellReturn) }
SingleResult(res) == IF Len(res) = 1 THEN res[1] ELSE Err(MultipleCellReturn)

\* self.cells[i] = Ok(Cell { kind: Expr { expr, result: Some(res) }, source })
StoreResult(t, i, src, expr, res) ==
    [t EXCEPT !.cells[i + 1] = Ok(Cell(src, KindExpr(expr, Some(res)))),
              !.writes[i + 1] = @ + 1]

\* left / right on BigDecimal: the division panics on a zero divisor
Divide(t, left, right) ==
    IF DecIsZero(right) THEN Abort(t, "Division by zero")
    ELSE [t |-> t, res |-> Ok(DecDiv(left, right))]

Max(a, b) == IF a >= b THEN a ELSE b

\* the match on the operator of a Binary node, both operands evaluated
BinaryOp(t, operator, left, right) ==
    CASE operator = Plus -> [t |-> t, res |-> Ok(DecAdd(left, right))]
      [] operator = Slash -> Divide(t, left, right)
      [] operator = Minus -> [t |-> t, res |-> Ok(DecSub(left, right))]
      [] operator = Star -> [t |-> t, res |-> Ok(DecMul(left, right))]
      [] OTHER ->
           [t |-> t, res |-> Err(RuntimeError("invalid token in binary expression"))]

\* the match on the operator of a Unary node, the operand evaluated
UnaryOp(t, operator, right) ==
    IF operator = Minus THEN [t |-> t, res |-> Ok(DecNeg(right))]
    ELSE [t |-> t, res |-> Err(RuntimeError("invalid token for unary expression"))]

\* an evaluation that ended the process, or returned an error the ? passes on
Stops(r) == Panicked(r.t) \/ IsErr(r.res)

RECURSIVE eval(_, _, _), evaluate_cell(_, _, _, _), eval_seq(_, _, _),
          lookup_range(_, _, _, _), eval_arguments(_, _, _, _)

\* Expr::eval, with the closure eval_other(c, r) = evaluate_cell(c, r, lk)
eval(t, tree, lk) ==
    CASE tree[1] = "Binary" ->
           Then(eval(t, tree[2], lk), LAMBDA left :
               IF Stops(left) THEN left
               ELSE Then(eval(left.t, tree[4], lk), LAMBDA right :
                   IF Stops(right) THEN right
                   ELSE BinaryOp(right.t, tree[3], left.res[2], right.res[2])))
      [] tree[1] = "Grouping" -> eval(t, tree[2], lk)
      [] tree[1] = "Literal" ->
           CASE is_number(tree[2]) -> [t |-> t, res |-> Ok(tree[2][2])]
             [] is_cell_ref(tree[2]) -> evaluate_cell(t, tree[2][2], tree[2][3], lk)
             [] OTHER -> [t |-> t, res |-> Err(RuntimeError("invalid token literal"))]
      [] tree[1] = "Unary" ->
           Then(eval(t, tree[3], lk), LAMBDA right :
               IF Stops(right) THEN right
               ELSE UnaryOp(right.t, tree[2], right.res[2]))

(* ast.rs under src/ has no Call variant and no arm for a CellRange         *)
(* literal, while parser.rs builds both and table.rs reads a vector of      *)
(* results.  Trees that hold a call or a range are evaluated by eval_seq,   *)
(* written from section 4.3 of the specification.                           *)

\* the cells of a range, the columns in the outer loop, the rows in the inner
RangeCells(token) ==
    IF token[3] <= token[2] \/ token[5] <= token[4] THEN <<>>
    ELSE [k \in 1..((token[3] - token[2]) * (token[5] - token[4])) |->
             <<token[2] + ((k - 1) \div (token[5] - token[4])),
               token[4] + ((k - 1) % (token[5] - token[4]))>>]

\* one value for each cell of a range, each by the lookup
lookup_range(t, coords, lk, acc) ==
    IF coords = <<>> THEN [t |-> t, res |-> acc]
    ELSE Then(evaluate_cell(t, coords[1][1], coords[1][2], lk), LAMBDA r :
             IF Panicked(r.t) THEN r
             ELSE lookup_range(r.t, Tail(coords), lk, Append(acc, r.res)))

\* one scalar result as a sequence
Single(r) == IF Panicked(r.t) THEN r ELSE [t |-> r.t, res |-> <<r.res>>]

\* a Binary node, both sides evaluated
CombineBinary(t, operator, left, right) ==
    IF Len(left) # 1 \/ Len(right) # 1
    THEN [t |-> t, res |-> <<Err(RuntimeError("cannot combine cell ranges"))>>]
    ELSE IF IsErr(left[1]) THEN [t |-> t, res |-> left]
    ELSE IF IsErr(right[1]) THEN [t |-> t, res |-> right]
    ELSE Single(BinaryOp(t, operator, left[1][2], right[1][2]))

\* a Unary node, its operand evaluated
CombineUnary(t, operator, right) ==
    IF Len(right) # 1
    THEN [t |-> t, res |-> <<Err(RuntimeError("cannot combine cell ranges"))>>]
    ELSE IF IsErr(right[1]) THEN [t |-> t, res |-> right]
    ELSE Single(UnaryOp(t, operator, right[1][2]))

\* the fold of the scalars with addition, starting from acc
RECURSIVE SumFrom(_, _)
SumFrom(values, acc) ==
    IF values = <<>> THEN acc
    ELSE SumFrom(Tail(values), DecAdd(acc, values[1][2]))

\* sum of the flattened values of the arguments
SumOf(values) ==
    IF \E k \in DOMAIN values : IsErr(values[k])
    THEN Err(RuntimeError("sum of a failing value"))
    ELSE Ok(SumFrom(values, DecOfInt(0)))

\* the arguments of a call, evaluated in order and flattened
eval_arguments(t, arguments, lk, acc) ==
    IF arguments = <<>> THEN [t |-> t, res |-> acc]
    ELSE Then(eval_seq(t, arguments[1], lk), LAMBDA r :
             IF Panicked(r.t) THEN r
             ELSE eval_arguments(r.t, Tail(arguments), lk, acc \o r.res))

\* the evaluator of section 4.3: a sequence of results
eval_seq(t, tree, lk) ==
    CASE tree[1] = "Binary" ->
           Then(eval_seq(t, tree[2], lk), LAMBDA left :
               IF Panicked(left.t) THEN left
               ELSE Then(eval_seq(left.t, tree[4], lk), LAMBDA right :
                   IF Panicked(right.t) THEN right
                   ELSE CombineBinary(right.t, tree[3], left.res, right.res)))
      [] tree[1] = "Grouping" -> eval_seq(t, tree[2], lk)
      [] tree[1] = "Literal" ->
           CASE is_number(tree[2]) -> [t |-> t, res |-> <<Ok(tree[2][2])>>]
             [] is_cell_ref(tree[2]) ->
                  Single(evaluate_cell(t, tree[2][2], tree[2][3], lk))
             [] is_cell_range(tree[2]) ->
                  lookup_range(t, RangeCells(tree[2]), lk, <<>>)
             [] OTHER ->
                  [t |-> t, res |-> <<Err(RuntimeError("invalid token literal"))>>]
      [] tree[1] = "Unary" ->
           Then(eval_seq(t, tree[3], lk), LAMBDA right :
               IF Panicked(right.t) THEN right
               ELSE CombineUnary(right.t, tree[2], right.res))
      [] tree[1] = "Call" ->
           IF tree[2] # Literal(Sum)
           THEN [t |-> t, res |-> <<Err(RuntimeError("invalid callee"))>>]
           ELSE Then(eval_arguments(t, tree[3], lk, <<>>), LAMBDA args :
                    IF Panicked(args.t) THEN args
                    ELSE [t |-> args.t, res |-> <<SumOf(args.res)>>])

\* the tree holds a call or a range
RECURSIVE YieldsSequence(_)
YieldsSequence(tree) ==
    CASE tree[1] = "Binary" -> YieldsSequence(tree[2]) \/ YieldsSequence(tree[4])
      [] tree[1] = "Grouping" -> YieldsSequence(tree[2])
      [] tree[1] = "Literal" -> is_cell_range(tree[2])
      [] tree[1] = "Unary" -> YieldsSequence(tree[3])
      [] tree[1] = "Call" -> TRUE

\* Evaluate::evaluate for Expr, as table.rs reads it: a vector of results
evaluate(t, expr, lk) ==
    IF YieldsSequence(expr) THEN eval_seq(t, expr, lk)
    ELSE Then(eval(t, expr, lk), LAMBDA r : [t |-> r.t, res |-> <<r.res>>])

\* the evaluation in progress: the slot of its expression and its depth
Owner(t) ==
    IF t.active = <<>> THEN <<-1, 0>> ELSE <<t.active[Len(t.active)], Len(t.active)>>

\* the log with what the evaluation in progress returned
Evaluated(t, res) == [t EXCEPT !.log = Append(@, <<"evaluate", Owner(t), res>>)]

\* the log with what the lookup of the coordinate returned
LookedUp(t, coord, res) ==
    [t EXCEPT !.log = Append(@, <<"lookup", Owner(t), coord, res>>)]

\* the table as the evaluation of the expression of slot i begins
Begin(t, i) ==
    [t EXCEPT !.evals[i + 1] = @ + 1,
              !.reentered = @ \/ i \in Range(t.active),
              !.active = Append(@, i)]

\* the table as that evaluation ends
End(t) == [t EXCEPT !.active = SubSeq(@, 1, Len(@) - 1)]

\* the evaluation of the expression of slot i and the write of its cache
\* entry, as evaluate_cell (lines 67-81) and run (lines 94-107) both do it
EvaluateAndStore(t, i, cell, lk) ==
    Then(evaluate(Begin(t, i), cell.kind[2], lk), LAMBDA got :
        IF Panicked(got.t) THEN [t |-> got.t, res |-> Panic(got.t.panic)]
        ELSE Then(SingleResult(got.res), LAMBDA res :
                 [t |-> StoreResult(End(Evaluated(got.t, got.res)), i,
                                    cell.source, cell.kind[2], res),
                  res |-> res]))

\* the table as evaluate_cell(col, row, call_chain) is entered
Enter(t, col, row, call_chain) ==
    [t EXCEPT !.leaked = @ \/ ~(call_chain \subseteq Range(t.stack)),
              !.stack = Append(@, <<col, row>>),
              !.maxDepth = Max(@, Len(t.stack) + 1)]

\* the call returns and its frame stays
LeaveWithoutPop(r) == r

\* the table as that call returns
Leave(r) ==
    IF Panicked(r.t) THEN r
    ELSE [t |-> [LookedUp(r.t, r.t.stack[Len(r.t.stack)], r.res)
                     EXCEPT !.stack = SubSeq(@, 1, Len(@) - 1)],
          res |-> r.res]

\* the table after self.cells[i] was read for (col, row)
Read(t, col, row) ==
    [t EXCEPT !.aliased = @ \/ col >= t.cols \/ row >= t.rows]

\* the match with an empty cell read as zero
CellValueEmptyAsZero(t, i, cell, chain) ==
    CASE cell.kind[1] = "Empty" -> [t |-> t, res |-> Ok(DecOfInt(0))]
      [] cell.kind[1] = "Number" -> [t |-> t, res |-> Ok(cell.kind[2])]
      [] cell.kind[1] = "Expr" ->
           IF IsNone(cell.kind[3]) THEN EvaluateAndStore(t, i, cell, chain)
           ELSE [t |-> t, res |-> cell.kind[3][2]]

\* the match of evaluate_cell on the kind of the cell read
CellValue(t, i, cell, chain) ==
    CASE cell.kind[1] = "Empty" -> [t |-> t, res |-> Err(EmptyCellEvaluation)]
      [] cell.kind[1] = "Number" -> [t |-> t, res |-> Ok(cell.kind[2])]
      [] cell.kind[1] = "Expr" ->
           IF IsNone(cell.kind[3]) THEN EvaluateAndStore(t, i, cell, chain)
           ELSE [t |-> t, res |-> cell.kind[3][2]]

\* Table::evaluate_cell
evaluate_cell(t, col, row, call_chain) ==
    Leave(Then(Enter(t, col, row, call_chain), LAMBDA entered :
        IF InChain(call_chain, col, row)
        THEN [t |-> entered, res |-> CycleError(col, row)]
        ELSE IF Idx(t.rows, col, row) >= Len(t.cells)
        THEN Abort(entered, "index out of bounds")
        ELSE IF IsErr(t.cells[Idx(t.rows, col, row) + 1])
        THEN [t |-> Read(entered, col, row),
              res |-> t.cells[Idx(t.rows, col, row) + 1]]
        ELSE CellValue(Read(entered, col, row), Idx(t.rows, col, row),
                       t.cells[Idx(t.rows, col, row) + 1][2],
                       LookupChain(call_chain, col, row))))

\* the body of the loops of Table::run for one (col, row)
RunCell(t, col, row) ==
    IF Idx(t.rows, col, row) >= Len(t.cells)
    THEN Abort(t, "index out of bounds").t
    ELSE Then(t.cells[Idx(t.rows, col, row) + 1], LAMBDA slot :
             IF IsOk(slot) /\ slot[2].kind[1] = "Expr" /\ IsNone(slot[2].kind[3])
             THEN EvaluateAndStore(t, Idx(t.rows, col, row), slot[2],
                                   RunChain(col, row)).t
             ELSE t)

\* the loops of Table::run from the k-th (col, row) on: for col in 0..cols,
\* for row in 0..rows
RECURSIVE RunFrom(_, _)
RunFrom(t, k) ==
    IF Panicked(t) \/ k >= t.cols * t.rows THEN t
    ELSE RunFrom(RunCell(t, k \div t.rows, k % t.rows), k + 1)

\* the loops started at the second cell
RunFromSecond(t) == RunFrom(t, 1)

\* Table::run
run(t) == RunFrom(t, 0)

-----------------------------------------------------------------------------
(* Display: what println!("{}", table) writes.                              *)

\* "{e}" of a TableError: the message of its #[error] attribute, which names
\* the variant and its payload
ErrorFmt(e) == <<"Display", e>>

\* Display for Cell: write!(f, "{}", self.source)
CellFmt(c) == c.source

\* one arm of the match of Display for Table
SlotFmt(slot) == IF IsOk(slot) THEN CellFmt(slot[2]) ELSE ErrorFmt(slot[2])

\* Display for Table: the texts written, each followed by '|', in one line
\* for each value of col
TableFmt(t) ==
    [col \in 1..t.cols |->
        [row \in 1..t.rows |-> SlotFmt(t.cells[Idx(t.rows, col - 1, row - 1) + 1])]]

-----------------------------------------------------------------------------
(* The inputs of the table specification *)

\* the most API calls (run, evaluate_cell) made on one table
MaxCalls == 2

\* cell texts
TEmpty == <<>>
T0 == <<"0">>
T1 == <<"1">>
T2 == <<"2">>
TA1 == <<"=", "a", "1">>
TA2 == <<"=", "a", "2">>
TA3 == <<"=", "a", "3">>
TA4 == <<"=", "a", "4">>
TB1 == <<"=", "b", "1">>
TB2 == <<"=", "b", "2">>
TC1 == <<"=", "c", "1">>
TA1PlusA1 == <<"=", "a", "1", "+", "a", "1">>
TA1PlusA2 == <<"=", "a", "1", "+", "a", "2">>
TA2PlusB1 == <<"=", "a", "2", "+", "b", "1">>
TB1Plus3 == <<"=", "b", "1", "+", "3">>
TA1Star2 == <<"=", "a", "1", "*", "2">>
T1Slash0 == <<"=", "1", "/", "0">>
T2SlashA1 == <<"=", "2", "/", "a", "1">>
TMinusA1 == <<"=", "-", "(", "a", "1", ")">>
TAbc == <<"a", "b", "c">>
TMinus5 == <<"-", "5">>
TSpace1 == <<" ", "1">>
TBadExpr == <<"=", "+">>
T1Space2 == <<"=", "1", " ", "2">>
TA1Paren == <<"=", "a", "1", " ", ")">>
T1Space2Dollar == <<"=", "1", " ", "2", " ", "$">>
TSumA1A2 == <<"=", "s", "u", "m", "(", "a", "1", ":", "a", "2", ")">>
TSumA1B2 == <<"=", "s", "u", "m", "(", "a", "1", ":", "b", "2", ")">>
TSumB1B2 == <<"=", "S", "u", "m", "(", "b", "1", ":", "b", "2", ")">>
TSumB2A1 == <<"=", "s", "u", "m", "(", "b", "2", ":", "a", "1", ")">>

\* the text of a table: the cells of a line joined by '|', the lines by '\n'
RECURSIVE Join(_, _)
Join(parts, sep) ==
    IF Len(parts) = 0 THEN <<>>
    ELSE IF Len(parts) = 1 THEN parts[1]
    ELSE parts[1] \o <<sep>> \o Join(SubSeq(parts, 2, Len(parts)), sep)

TableText(grid) == Join([r \in DOMAIN grid |-> Join(grid[r], "|")], "\n")

\* the grids of nLines lines of nCells cells each, the cells drawn from pool
Grids(nLines, nCells, pool) == [1..nLines -> [1..nCells -> pool]]

\* the grids of the same shape with one cell drawn from special
GridsWith(nLines, nCells, pool, special) ==
    {[g EXCEPT ![r][c] = x] : g \in Grids(nLines, nCells, pool),
                              r \in 1..nLines, c \in 1..nCells, x \in special}

ReferencePool == {TEmpty, T1, TA1, TA2, TB1, TB2, TA2PlusB1, TA1PlusA1}
SmallPool == {TEmpty, T1, TA1, TB2}
SpecialPool == {T0, TA3, TC1, TB1Plus3, TA1Star2, T1Slash0, T2SlashA1, TMinusA1,
                TAbc, TMinus5, TSpace1, TBadExpr}
LinePool == {TEmpty, T1, TA1, TA2, TA3, TB1, TC1, TA1Star2, TA1PlusA2}
WidePool == {T2, TA2, TC1}
SumPool == {TSumA1A2, TSumA1B2, TSumB1B2, TSumB2A1}

Inputs ==
    {TableText(g) : g \in Grids(2, 2, ReferencePool)
                        \cup GridsWith(2, 2, SmallPool, SpecialPool)
                        \cup Grids(1, 2, LinePool) \cup Grids(2, 1, LinePool)
                        \cup Grids(1, 3, LinePool) \cup Grids(3, 1, LinePool)
                        \cup Grids(2, 3, WidePool)
                        \cup {<<<<T1, T2>>, <<TA1PlusA2, TB1Plus3>>>>,
                              <<<<T0, T2>>, <<T2SlashA1, T2SlashA1>>>>,
                              <<<<TA2, TB1>>, <<TA4, TA3>>>>,
                              <<<<T1Space2, TA1Paren>>>>,
                              <<<<T1Space2Dollar>>, <<TA1PlusA1>>>>,
                              <<<<T1, T2>>, <<T1>>>>}}
    \cup {<<>>, <<"1", "|", "2", "\n">>}

\* the tables with one formula that sums a range
SumInputs ==
    {TableText(g) : g \in GridsWith(2, 2, SmallPool, SumPool)
                        \cup GridsWith(1, 3, {T1, T2}, SumPool)
                        \cup GridsWith(3, 1, {T1, TEmpty}, SumPool)}

-----------------------------------------------------------------------------
(* The table specification: a table is built from a text, then run and      *)
(* evaluate_cell are called on it.                                          *)

NoCall == <<"none", 0, 0, None>>

\* the table as evaluation starts on it
TableState ==
    [rows |-> rows, cols |-> cols, cells |-> cells, panic |-> panic,
     evals |-> evals, writes |-> writes, aliased |-> aliased, leaked |-> leaked,
     reentered |-> reentered, maxDepth |-> maxDepth, stack |-> <<>>,
     active |-> <<>>, log |-> <<>>]

\* the table after an evaluation
Becomes(t) ==
    /\ cells' = t.cells
    /\ panic' = t.panic
    /\ evals' = t.evals
    /\ writes' = t.writes
    /\ aliased' = t.aliased
    /\ leaked' = t.leaked
    /\ reentered' = t.reentered
    /\ maxDepth' = t.maxDepth
    /\ log' = t.log
    /\ pc' = IF Panicked(t) THEN "panicked" ELSE "ready"
    /\ UNCHANGED <<source, rows, cols>>

LexIdle ==
    /\ lexIn = <<>>
    /\ lexSrc = <<>>
    /\ lexOut = <<>>
    /\ lexDone = FALSE

ParseIdle ==
    /\ parseTree = <<>>
    /\ parseIn = <<>>
    /\ parseOut = None

Init ==
    /\ pc = "start"
    /\ source \in Inputs
    /\ rows = 0
    /\ cols = 0
    /\ cells = <<>>
    /\ panic = "none"
    /\ evals = <<>>
    /\ writes = <<>>
    /\ aliased = FALSE
    /\ leaked = FALSE
    /\ reentered = FALSE
    /\ maxDepth = 0
    /\ calls = 0
    /\ last = NoCall
    /\ log = <<>>
    /\ LexIdle
    /\ ParseIdle

\* Table::new_interpet(source), as main calls it
NewInterpet ==
    /\ pc = "start"
    /\ \E made \in {new_interpet(source)} :
          /\ pc' = IF IsOk(made) THEN "ready"
                   ELSE IF IsPanic(made) THEN "panicked" ELSE "failed"
          /\ panic' = IF IsPanic(made) THEN made[2] ELSE "none"
          /\ rows' = IF IsOk(made) THEN made[2].rows ELSE 0
          /\ cols' = IF IsOk(made) THEN made[2].cols ELSE 0
          /\ cells' = IF IsOk(made) THEN made[2].cells ELSE <<>>
          /\ evals' = IF IsOk(made) THEN [i \in DOMAIN made[2].cells |-> 0] ELSE <<>>
          /\ writes' = IF IsOk(made) THEN [i \in DOMAIN made[2].cells |-> 0] ELSE <<>>
          /\ last' = <<"new_interpet", 0, 0,
                       IF IsErr(made) THEN Some(made) ELSE None>>
    /\ UNCHANGED <<source, aliased, leaked, reentered, maxDepth, calls, log,
                   lexVars, parseVars>>

\* table.run()
Run ==
    /\ pc = "ready"
    /\ calls < MaxCalls
    /\ \E t \in {run(TableState)} : Becomes(t)
    /\ calls' = calls + 1
    /\ last' = <<"run", 0, 0, None>>
    /\ UNCHANGED <<lexVars, parseVars>>

\* table.evaluate_cell(col, row, HashSet::new()) on a cell of the table
EvaluateCell ==
    /\ pc = "ready"
    /\ calls < MaxCalls
    /\ \E col \in 0..(cols - 1), row \in 0..(rows - 1) :
          \E r \in {evaluate_cell(TableState, col, row, {})} :
             /\ Becomes(r.t)
             /\ last' = <<"evaluate_cell", col, row, Some(r.res)>>
    /\ calls' = calls + 1
    /\ UNCHANGED <<lexVars, parseVars>>

Next == NewInterpet \/ Run \/ EvaluateCell

Spec == Init /\ [][Next]_vars

\* the same calls on the tables that sum a range
SumInit ==
    /\ pc = "start"
    /\ source \in SumInputs
    /\ rows = 0
    /\ cols = 0
    /\ cells = <<>>
    /\ panic = "none"
    /\ evals = <<>>
    /\ writes = <<>>
    /\ aliased = FALSE
    /\ leaked = FALSE
    /\ reentered = FALSE
    /\ maxDepth = 0
    /\ calls = 0
    /\ last = NoCall
    /\ log = <<>>
    /\ LexIdle
    /\ ParseIdle

SumSpec == SumInit /\ [][Next]_vars

-----------------------------------------------------------------------------
(* The tokenizer specification: a Tokenizer is created on a slice and next  *)
(* is called on it until it returns None.                                   *)

\* the longest input slice
LexMaxLen == 5

LexAlphabet == {"a", "b", "0", "1", "2", ":", " "}

\* texts with the characters the alphabet leaves out
LexTexts ==
    {<<"z", "1">>, <<"b", "3">>, <<"A", "a", "1", "2">>, <<"Z", "z", "9">>,
     <<"s", "u", "m">>, <<"s", "u", "m", "1">>, <<" ", "S", "u", "M", "2", "0">>,
     <<"s", "u", "1">>, <<"s", "u", "m", "s", "1">>, <<"a", "b", "1", "0">>,
     <<"$">>, <<"a", "$", "1">>, <<"1", ".", "2", "5">>, <<"1", " ", "2", " ", "$">>,
     <<" ", " ", "a", "1", " ", "+", " ", "b", "3">>,
     <<"s", "u", "m", "(", "a", "1", ":", "b", "2", "2", ")", "+", "c", "3">>,
     <<"s", "u", "m", "(", "a", "1", ",", " ", "b", "2", "2", ")", "-", "c", "3">>,
     <<"(", "1", "/", "2", ")", "*", "-", "3">>, <<"\t", "a", "1", "\n">>}

LexInputs == UNION {[1..n -> LexAlphabet] : n \in 0..LexMaxLen} \cup LexTexts

TableIdle ==
    /\ pc = "idle"
    /\ source = <<>>
    /\ rows = 0
    /\ cols = 0
    /\ cells = <<>>
    /\ panic = "none"
    /\ evals = <<>>
    /\ writes = <<>>
    /\ aliased = FALSE
    /\ leaked = FALSE
    /\ reentered = FALSE
    /\ maxDepth = 0
    /\ calls = 0
    /\ last = NoCall
    /\ log = <<>>

LexInit ==
    /\ TableIdle
    /\ ParseIdle
    /\ lexIn \in LexInputs
    /\ lexSrc = lexIn
    /\ lexOut = <<>>
    /\ lexDone = FALSE

\* Iterator::next on the Tokenizer
NextToken ==
    /\ pc = "idle"
    /\ ~lexDone
    /\ \E nt \in {next_token(lexSrc)} :
          /\ lexSrc' = nt.src
          /\ lexDone' = IsNone(nt.res)
          /\ lexOut' = IF IsNone(nt.res) THEN lexOut ELSE Append(lexOut, nt.res[2])
    /\ UNCHANGED <<lexIn, tableVars, parseVars>>

LexNext == NextToken

LexSpec == LexInit /\ [][LexNext]_vars

-----------------------------------------------------------------------------
(* The parser specification: a Parser is created on an iterator over the    *)
(* tokens of an expression of the grammar, as the tests of parser.rs do     *)
(* with their DummyTokenizer, and ast is called on it.                      *)

\* the largest number of operators, groupings and calls in an expression
ParseMaxOps == 2

\* CELLREF | BUILTIN_FN; NUMBER and CELLRANGE are in ParseExtraTrees
ParseAtoms == {Literal(CellRef(0, 0)), Literal(Sum)}

\* the ways to give n - 1 nodes to two subtrees
Splits(n) == {j \in (0..n) \X (0..n) : j[1] + j[2] = n - 1}

\* The trees of each level of the grammar with exactly n nodes other than
\* literals; acc[k + 1] holds those with k such nodes, k < n.
\* primary := NUMBER | CELLREF | CELLRANGE | BUILTIN_FN | '(' expression ')'
PrimaryOf(acc, n) ==
    IF n = 0 THEN ParseAtoms ELSE {Grouping(e) : e \in acc[n].t}

\* call := primary ( '(' arguments ')' )*, with one argument, or two literals
CallOf(acc, n, ps) ==
    ps \cup UNION {{Call(c, <<e>>) : c \in acc[j[1] + 1].c, e \in acc[j[2] + 1].t} :
                      j \in Splits(n)}
       \cup (IF n = 0 THEN {}
             ELSE {Call(c, <<e, f>>) : c \in acc[n].c, e \in ParseAtoms,
                                       f \in ParseAtoms})

\* unary := '-' unary | call
UnaryOf(acc, n, cs) ==
    cs \cup (IF n = 0 THEN {} ELSE {Unary(Minus, u) : u \in acc[n].u})

\* factor := unary ( ('*' | '/') unary )*, grouped to the left
FactorOf(acc, n, us) ==
    us \cup UNION {{Binary(l, op, r) : l \in acc[j[1] + 1].f, op \in {Star, Slash},
                                       r \in acc[j[2] + 1].u} : j \in Splits(n)}

\* term := factor ( ('+' | '-') factor )*, grouped to the left
TermOf(acc, n, fs) ==
    fs \cup UNION {{Binary(l, op, r) : l \in acc[j[1] + 1].t, op \in {Plus, Minus},
                                       r \in acc[j[2] + 1].f} : j \in Splits(n)}

GrammarLevel(acc, n) ==
    Then(CallOf(acc, n, PrimaryOf(acc, n)), LAMBDA cs :
    Then(UnaryOf(acc, n, cs), LAMBDA us :
    Then(FactorOf(acc, n, us), LAMBDA fs :
         [c |-> cs, u |-> us, f |-> fs, t |-> TermOf(acc, n, fs)])))

RECURSIVE GrammarLevels(_)
GrammarLevels(n) ==
    IF n = 0 THEN <<GrammarLevel(<<>>, 0)>>
    ELSE Then(GrammarLevels(n - 1), LAMBDA acc : Append(acc, GrammarLevel(acc, n)))

\* sum(a1, sum(a1:e2)) of test_sum_of_sums, and longer chains
SumOfSums ==
    Call(Literal(Sum),
         <<Literal(CellRef(0, 0)),
           Call(Literal(Sum), <<Literal(CellRange(0, 5, 1, 3))>>)>>)

ParseExtraTrees ==
    {SumOfSums,
     Binary(Binary(Binary(Literal(CellRef(0, 0)), Minus, Literal(CellRef(1, 1))),
                   Minus, Literal(Number(<<14, 1>>))),
            Plus, Literal(CellRef(0, 0))),
     Binary(Literal(CellRef(0, 0)), Plus,
            Binary(Binary(Unary(Minus, Literal(CellRef(1, 1))), Star,
                          Literal(Number(<<14, 1>>))),
                   Slash, Grouping(SumOfSums)))}

\* the expressions of the grammar
GrammarTrees ==
    Then(GrammarLevels(ParseMaxOps), LAMBDA acc :
         UNION {acc[k].t : k \in DOMAIN acc} \cup ParseExtraTrees)

\* the tokens the grammar writes a tree with
RECURSIVE Unparse(_), UnparseArguments(_)
Unparse(tree) ==
    CASE tree[1] = "Literal" -> <<tree[2]>>
      [] tree[1] = "Grouping" -> <<LeftParen>> \o Unparse(tree[2]) \o <<RightParen>>
      [] tree[1] = "Unary" -> <<tree[2]>> \o Unparse(tree[3])
      [] tree[1] = "Binary" -> Unparse(tree[2]) \o <<tree[3]>> \o Unparse(tree[4])
      [] tree[1] = "Call" ->
           Unparse(tree[2]) \o <<LeftParen>> \o UnparseArguments(tree[3])
               \o <<RightParen>>

UnparseArguments(arguments) ==
    IF Len(arguments) = 1 THEN Unparse(arguments[1])
    ELSE Unparse(arguments[1]) \o <<Comma>> \o UnparseArguments(Tail(arguments))

\* the items of a DummyTokenizer over the tokens
Items(tokens) == [i \in DOMAIN tokens |-> Ok(tokens[i])]

ParseInit ==
    /\ TableIdle
    /\ LexIdle
    /\ parseTree \in GrammarTrees
    /\ parseIn = Items(Unparse(parseTree))
    /\ parseOut = None

\* Parser::new(&mut tokenizer).ast()
ParseAst ==
    /\ parseTree # <<>>
    /\ parseOut = None
    /\ \E parsed \in {ast(ParserNew(parseIn))} : parseOut' = Some(parsed.res)
    /\ UNCHANGED <<parseTree, parseIn, tableVars, lexVars>>

ParseNext == ParseAst

ParseSpec == ParseInit /\ [][ParseNext]_vars

-----------------------------------------------------------------------------
(* What the properties below speak about: the slots of the table, the       *)
(* references of their formulas and the results an observer has seen.       *)

Slots == DOMAIN cells

IsFormula(i) == IsOk(cells[i]) /\ cells[i][2].kind[1] = "Expr"
IsNumber(i) == IsOk(cells[i]) /\ cells[i][2].kind[1] = "Number"
IsEmpty(i) == IsOk(cells[i]) /\ cells[i][2].kind[1] = "Empty"
IsFailed(i) == IsErr(cells[i])

\* the formula of slot i has a memoized result
Cached(i) == IsFormula(i) /\ IsSome(cells[i][2].kind[3])
Memo(i) == cells[i][2].kind[3][2]

\* the coordinates a tree references, in the order its evaluation reads them
RECURSIVE RefSeq(_), RefSeqOfAll(_)
RefSeq(tree) ==
    CASE tree[1] = "Binary" -> RefSeq(tree[2]) \o RefSeq(tree[4])
      [] tree[1] = "Grouping" -> RefSeq(tree[2])
      [] tree[1] = "Literal" ->
           IF is_cell_ref(tree[2]) THEN <<<<tree[2][2], tree[2][3]>>>>
           ELSE IF is_cell_range(tree[2]) THEN RangeCells(tree[2])
           ELSE <<>>
      [] tree[1] = "Unary" -> RefSeq(tree[3])
      [] tree[1] = "Call" -> RefSeqOfAll(tree[3])
      [] OTHER -> <<>>

RefSeqOfAll(trees) ==
    IF trees = <<>> THEN <<>> ELSE RefSeq(trees[1]) \o RefSeqOfAll(Tail(trees))

RefsOf(i) == IF IsFormula(i) THEN RefSeq(cells[i][2].kind[2]) ELSE <<>>

InTable(c) == c[1] < cols /\ c[2] < rows

\* the slot of a coordinate of the table
SlotOf(c) == Idx(rows, c[1], c[2]) + 1

\* the cells the formula of slot i references (the reference graph) or, with
\* asRead, the slots the evaluator reads for its references: a reference
\* outside the table is read when its index falls inside the sequence
Targets(i, asRead) ==
    {SlotOf(c) : c \in {d \in Range(RefsOf(i)) :
                           IF asRead THEN SlotOf(d) <= Len(cells) ELSE InTable(d)}}

RECURSIVE Closure(_, _, _)
Closure(S, k, asRead) ==
    IF k = 0 THEN S
    ELSE Then(S \cup UNION {Targets(i, asRead) : i \in S}, LAMBDA more :
             IF more = S THEN S ELSE Closure(more, k - 1, asRead))

\* the cells reachable from slot i along one or more references
DependsOn(i) == Closure(Targets(i, FALSE), Len(cells), FALSE)
ReadsFrom(i) == Closure(Targets(i, TRUE), Len(cells), TRUE)

OnCycle(i) == i \in DependsOn(i)
CycleOf(i) == {j \in DependsOn(i) : i \in DependsOn(j)}
OnReadCycle(i) == i \in ReadsFrom(i)

Acyclic == \A i \in Slots : ~OnCycle(i)

\* the last call was evaluate_cell on slot i and it returned
Returned(i) ==
    /\ pc = "ready"
    /\ last[1] = "evaluate_cell"
    /\ SlotOf(<<last[2], last[3]>>) = i

\* the results an observer has for the formula of slot i
ResultsOf(i) ==
    (IF Cached(i) THEN {Memo(i)} ELSE {})
        \cup (IF Returned(i) THEN {last[4][2]} ELSE {})

IsCycleError(r) == IsErr(r) /\ r[2][1] = "RecursiveCellExpr"

\* run has returned and nothing was called since
AfterRun == pc = "ready" /\ last[1] = "run"

\* the memoized results of the formulas whose text is txt
MemoOf(txt) ==
    {cells[i][2].kind[3] : i \in {j \in Slots : IsFormula(j) /\ cells[j][2].source = txt}}

-----------------------------------------------------------------------------
(* C1: the two-line table "1|2" / "=a1+a2|=b1+3".                           *)

C1Source == TableText(<<<<T1, T2>>, <<TA1PlusA2, TB1Plus3>>>>)

\* the table is built with 2 rows and 2 columns, its first line two numbers
C1Built ==
    /\ pc = "ready"
    /\ rows = 2
    /\ cols = 2
    /\ Len(cells) = 4
    /\ cells[1] = Ok(Cell(T1, KindNumber(DecOfInt(1))))
    /\ cells[2] = Ok(Cell(T2, KindNumber(DecOfInt(2))))

-----------------------------------------------------------------------------
(* C2: cells on a cycle of references.                                      *)

\* the coordinate a cycle error names
Named(r) == <<r[2][2], r[2][3]>>

FailureBelow(i, r) ==
    \E j \in ReadsFrom(i) :
        \/ IsEmpty(j) /\ r = Err(EmptyCellEvaluation)
        \/ IsFailed(j) /\ r = cells[j]

-----------------------------------------------------------------------------
(* C3: tables without a cycle of references.                                *)

\* C3 as stated: in a table whose reference graph has no cycle no evaluation
\* returns or memoizes RecursiveCellExpr, and the chain handed to a lookup
\* holds only coordinates of the calls it is nested in, never those of a
\* sibling operand.
C3_NoFalseCycle ==
    Acyclic =>
        /\ \A i \in Slots : \A r \in ResultsOf(i) : ~IsCycleError(r)
        /\ ~leaked

-----------------------------------------------------------------------------
(* C4: one evaluation and one write of the cache per formula.               *)

\* C4 as stated: the expression of a formula is evaluated at most once and
\* its cache entry written exactly once, cyclic tables included.
C4_MemoizedOnce ==
    \A i \in Slots :
        /\ evals[i] <= 1
        /\ writes[i] <= 1
        /\ Cached(i) => writes[i] = 1

-----------------------------------------------------------------------------
(* C5: run visits every cell, and a second run does nothing.                *)

\* the evaluation t changed neither a cell nor a counter of the table
Untouched(t) ==
    /\ ~Panicked(t)
    /\ t.cells = cells
    /\ t.evals = evals
    /\ t.writes = writes

\* C5: when run has returned every formula of the table holds a memoized
\* result, whatever the shape of the table, and a run on that table
\* evaluates nothing and leaves every cell as it is.
C5_RunAll ==
    AfterRun =>
        /\ \A i \in Slots : IsFormula(i) => Cached(i)
        /\ \A t \in {run(TableState)} : Untouched(t)

\* the second run has returned on a table that is not square and has a
\* formula
C5_RunAllReached ==
    /\ AfterRun
    /\ calls = 2
    /\ rows # cols
    /\ \E i \in Slots : Cached(i) /\ evals[i] = 1

-----------------------------------------------------------------------------
(* C6: errors are memoized and inherited.                                   *)

\* evaluating slot j gives an error
Errored(j) == IsEmpty(j) \/ IsFailed(j) \/ (Cached(j) /\ IsErr(Memo(j)))

\* evaluating slot j gives a number
Valued(j) == IsNumber(j) \/ (Cached(j) /\ IsOk(Memo(j)))

\* the coordinate of slot i
CoordOf(i) == <<(i - 1) \div rows, (i - 1) % rows>>

\* evaluate_cell on slot i returns the memoized result and evaluates nothing
Replayed(i) ==
    \A r \in {evaluate_cell(TableState, CoordOf(i)[1], CoordOf(i)[2], {})} :
        r.res = Memo(i) /\ Untouched(r.t)

\* the formula of slot i references a cell of the table that s holds of
RefersTo(i, s(_)) == \E c \in Range(RefsOf(i)) : InTable(c) /\ s(SlotOf(c))

\* the first reference of the formula of slot i that does not give a number
\* is an empty cell
EmptyFailsFirst(i) ==
    \E k \in DOMAIN RefsOf(i) :
        /\ InTable(RefsOf(i)[k]) /\ IsEmpty(SlotOf(RefsOf(i)[k]))
        /\ \A j \in 1..(k - 1) : InTable(RefsOf(i)[j]) /\ Valued(SlotOf(RefsOf(i)[j]))

\* C6 as stated: while the process runs, a memoized formula that references
\* an empty cell holds EmptyCellEvaluation, one that references a cell whose
\* result is an error holds an error, and evaluate_cell on it returns the
\* memoized error without evaluating the formula again.
C6_ErrorsAsStated ==
    \A i \in Slots :
        pc = "ready" /\ Cached(i) =>
            /\ RefersTo(i, IsEmpty) => Memo(i) = Err(EmptyCellEvaluation)
            /\ RefersTo(i, Errored) => IsErr(Memo(i))
            /\ IsErr(Memo(i)) => Replayed(i)

\* C6 amended: while the process runs, a memoized formula that references
\* an empty cell or a cell whose result is an error holds an error, never a
\* number; the error is EmptyCellEvaluation when the empty cell is the first
\* of its references that fails, and otherwise the error of the reference
\* that fails first; evaluate_cell on it returns the memoized error without
\* evaluating the formula again.
C6_Errors ==
    \A i \in Slots :
        pc = "ready" /\ Cached(i) =>
            /\ RefersTo(i, Errored) => IsErr(Memo(i))
            /\ EmptyFailsFirst(i) => Memo(i) = Err(EmptyCellEvaluation)
            /\ IsErr(Memo(i)) => Replayed(i)

\* on the one-line table of "" and "=a1*2" the formula was evaluated once,
\* holds EmptyCellEvaluation, and a later evaluate_cell returned that error
C6_ErrorsReached ==
    /\ source = TableText(<<<<TEmpty, TA1Star2>>>>)
    /\ calls = 2
    /\ Returned(2)
    /\ last[4][2] = Err(EmptyCellEvaluation)
    /\ Cached(2)
    /\ Memo(2) = Err(EmptyCellEvaluation)
    /\ evals[2] = 1

-----------------------------------------------------------------------------
(* C7: references outside the table.                                        *)

\* C7 as stated: a formula that references a coordinate outside the table
\* ends with an error value; no evaluation indexes the cells outside
\* 0..rows*cols (the process is not ended by an index out of bounds) and no
\* such reference is resolved to another cell of the table.
C7_OutOfTable ==
    /\ panic # "index out of bounds"
    /\ ~aliased
    /\ \A i \in Slots :
           Cached(i) /\ (\E c \in Range(RefsOf(i)) : ~InTable(c)) => IsErr(Memo(i))

-----------------------------------------------------------------------------
(* C8: cells whose text is neither empty, a formula nor a number.           *)

\* C8 as stated: building a table never ends the process, whatever the text
\* of its cells ("abc", "-5", " 1"): new_interpet returns.
C8_Construction == last[1] = "new_interpet" => pc # "panicked"

-----------------------------------------------------------------------------
(* C9: division by zero.                                                    *)

\* C9 as stated: a division whose divisor evaluates to zero never ends the
\* process.
C9_Division == panic # "Division by zero"

-----------------------------------------------------------------------------
(* C10: the bounds of a range token.                                        *)

\* the text x is one cell reference and nothing else
IsReference(x) ==
    \A r \in {parse_cell_reference(x)} : IsOk(r.res) /\ Len(r.src) = 0

Corner(x) == parse_cell_reference(x).res[2]

Min(a, b) == IF a <= b THEN a ELSE b

\* the range token for the corners p and q: the columns from the smaller to
\* the larger one, and the rows likewise, the end of each bound exclusive
Covering(p, q) ==
    CellRange(Min(p[1], q[1]), Max(p[1], q[1]) + 1,
              Min(p[2], q[2]), Max(p[2], q[2]) + 1)

\* C10 as stated: the text REF1:REF2 lexes to one range token whose column
\* bounds are [min, max + 1) of the two columns and whose row bounds are
\* [min, max + 1) of the two rows, in whichever order the corners are
\* written, so no range is empty.
C10_RangeBounds ==
    \A k \in DOMAIN lexIn :
        /\ lexIn[k] = ":"
        /\ IsReference(SubSeq(lexIn, 1, k - 1))
        /\ IsReference(SubSeq(lexIn, k + 1, Len(lexIn)))
        /\ lexOut # <<>>
        => /\ lexOut = <<Ok(Covering(Corner(SubSeq(lexIn, 1, k - 1)),
                                     Corner(SubSeq(lexIn, k + 1, Len(lexIn)))))>>
           /\ lexOut[1][2][2] < lexOut[1][2][3]
           /\ lexOut[1][2][4] < lexOut[1][2][5]

-----------------------------------------------------------------------------
(* C11: the decoding of a cell reference.                                   *)

Letters == Range(LowerCase) \cup Range(UpperCase)

\* the place of a letter in the alphabet, a = 1 .. z = 26, in either case
AlphabetPlace(c) ==
    CHOOSE i \in 1..26 : LowerCase[i] = c \/ UpperCase[i] = c

\* the bijective base-26 value of a run of letters, read from the left
RECURSIVE Bijective26(_, _)
Bijective26(ls, acc) ==
    IF ls = <<>> THEN acc
    ELSE Bijective26(Tail(ls), 26 * acc + AlphabetPlace(Head(ls)))

\* the decimal value of a run of digits, read from the left
RECURSIVE Decimal(_, _)
Decimal(ds, acc) ==
    IF ds = <<>> THEN acc
    ELSE Decimal(Tail(ds),
                 10 * acc + (CHOOSE d \in 0..9 : Digits[d + 1] = Head(ds)))

\* the input is n whitespace characters, then letters up to position k, then
\* digits to its end
IsReferenceText(n, k) ==
    /\ n < k
    /\ k < Len(lexIn)
    /\ \A i \in 1..n : lexIn[i] \in Whitespace
    /\ \A i \in (n + 1)..k : lexIn[i] \in Letters
    /\ \A i \in (k + 1)..Len(lexIn) : lexIn[i] \in Range(Digits)

\* the letters of the input spell the builtin sum, in whatever case
SpellsSum(n, k) ==
    /\ k = n + 3
    /\ lexIn[n + 1] \in {"s", "S"}
    /\ lexIn[n + 2] \in {"u", "U"}
    /\ lexIn[n + 3] \in {"m", "M"}

\* the first item is the reference decoded from the letters and the digits,
\* or an InvalidCell error when the row number is 0
DecodesTo(item, ls, ds) ==
    IF Decimal(ds, 0) = 0
    THEN IsErr(item) /\ item[2][1] = "InvalidCell"
    ELSE item = Ok(CellRef(Bijective26(ls, 0) - 1, Decimal(ds, 0) - 1))

\* C11 as stated: an input of optional whitespace, a run of letters and a run
\* of digits lexes first to CellRef(col, row), col the bijective base-26
\* value of the letters minus 1 (case-insensitive), row the decimal number
\* minus 1, and to an InvalidCell error when the row number is 0.
C11_DecodingAsStated ==
    \A n \in 0..Len(lexIn), k \in 1..Len(lexIn) :
        IsReferenceText(n, k) /\ lexOut # <<>> =>
            DecodesTo(lexOut[1], SubSeq(lexIn, n + 1, k),
                      SubSeq(lexIn, k + 1, Len(lexIn)))

\* C11 amended: an input of optional whitespace, a run of letters other than
\* the keyword sum (in any case) and a run of digits lexes to the one item
\* CellRef(col, row), col the bijective base-26 value of the letters minus 1
\* (case-insensitive), row the decimal number minus 1, and to an InvalidCell
\* error when the row number is 0; when the letters spell sum the first item
\* is the builtin Sum and the digits lex as a number after it.
C11_Decoding ==
    \A n \in 0..Len(lexIn), k \in 1..Len(lexIn) :
        IsReferenceText(n, k) /\ lexOut # <<>> =>
            IF SpellsSum(n, k) THEN lexOut[1] = Ok(Sum)
            ELSE /\ Len(lexOut) = 1
                 /\ DecodesTo(lexOut[1], SubSeq(lexIn, n + 1, k),
                              SubSeq(lexIn, k + 1, Len(lexIn)))

\* " aa12" was lexed to its end: whitespace skipped, two letters decoded
C11_DecodingReached ==
    /\ lexDone
    /\ lexIn = <<" ", "a", "a", "1", "2">>
    /\ lexOut = <<Ok(CellRef(26, 11))>>

-----------------------------------------------------------------------------
(* C12: the parser and the grammar.                                         *)

\* C12: for the token sequence the grammar writes an expression with, ast
\* returns that expression's tree: operators of one level group to the left,
\* '*' and '/' bind tighter than '+' and '-', unary minus tighter than both,
\* and a call holds its callee and its arguments in the order written.
C12_Grammar == IsSome(parseOut) => parseOut[2] = Ok(parseTree)

\* ast has returned the tree of sum(a1, sum(a1:e2))
C12_GrammarReached ==
    /\ IsSome(parseOut)
    /\ parseTree = SumOfSums
    /\ parseOut[2] = Ok(SumOfSums)

-----------------------------------------------------------------------------
(* C13: what a formula cell is rendered as.                                 *)

\* "{}" of a BigDecimal
DecimalFmt(v) == <<"Display", v>>

\* the text the table is rendered with at slot i
RenderedAt(i) == TableFmt(TableState)[((i - 1) \div rows) + 1][((i - 1) % rows) + 1]

\* C13: a formula without a cached result is rendered as its source text and
\* a formula with a cached result as the cached value, or as the text of the
\* cached error.
C13_Rendering ==
    pc = "ready" =>
        \A i \in Slots :
            IsFormula(i) =>
                RenderedAt(i) = IF ~Cached(i) THEN cells[i][2].source
                                ELSE IF IsOk(Memo(i)) THEN DecimalFmt(Memo(i)[2])
                                ELSE ErrorFmt(Memo(i)[2])

\* What is rendered is the source text of every built cell, cached or not.
C13_RenderedSource ==
    pc = "ready" =>
        \A i \in Slots :
            RenderedAt(i) = IF IsOk(cells[i]) THEN cells[i][2].source
                            ELSE ErrorFmt(cells[i][2])

-----------------------------------------------------------------------------
(* C14: sum over a range.                                                   *)

\* the tree is a call of sum with one argument, a range
IsSumOfRange(tree) ==
    /\ tree[1] = "Call"
    /\ tree[2] = Literal(Sum)
    /\ Len(tree[3]) = 1
    /\ tree[3][1][1] = "Literal"
    /\ is_cell_range(tree[3][1][2])

\* the evaluations of sums over a range the last call made
SumEvaluations ==
    {k \in DOMAIN log :
        /\ log[k][1] = "evaluate"
        /\ IsSumOfRange(cells[log[k][2][1] + 1][2].kind[2])}

\* the lookups the evaluation logged at k made, in order
LookupsOf(k) == SelectSeq(log, LAMBDA e : e[1] = "lookup" /\ e[2] = log[k][2])

\* the range the evaluation logged at k sums
RangeOf(k) == cells[log[k][2][1] + 1][2].kind[2][3][1][2]

\* the first n values added up
RECURSIVE Total(_, _)
Total(looks, n) ==
    IF n = 0 THEN DecOfInt(0) ELSE DecAdd(Total(looks, n - 1), looks[n][4][2])

\* the coordinate is a slot of the table that holds an empty cell
EmptyAt(coord) ==
    /\ Idx(rows, coord[1], coord[2]) + 1 \in Slots
    /\ IsEmpty(Idx(rows, coord[1], coord[2]) + 1)

-----------------------------------------------------------------------------
(* C15: termination and the depth of the recursion.                         *)

\* the coordinates whose index falls inside the flat store
Addressable ==
    {c \in (0..Len(cells)) \X (0..Len(cells)) : Idx(rows, c[1], c[2]) < Len(cells)}

\* every reference of every formula names a cell of the table
ReferencesInTable ==
    \A i \in Slots : \A c \in Range(RefsOf(i)) : InTable(c)

\* the call has returned with its frames released, or has ended the process
Terminated(t) == Panicked(t) \/ (t.stack = <<>> /\ t.active = <<>>)

-----------------------------------------------------------------------------
(* C16: evaluation of a cell that is being evaluated.                       *)

\* C16: while the expression of a formula cell is being evaluated, no nested
\* call evaluates the expression of that cell.
C16_NoReentry == ~reentered

-----------------------------------------------------------------------------
(* C17: the slot of a cell in construction, evaluation and rendering.       *)

\* the text at position c of line r of the source, both counted from zero
TextAt(r, c) == Split(Lines(source)[r + 1], "|")[c + 1]

\* slot i holds the cell that construction built from the text
BuiltFrom(i, text) ==
    IF IsOk(cells[i]) THEN cells[i][2].source = text
    ELSE cells[i] = CellNewExpr(text)

\* C17: the slot that evaluate_cell(col = c, row = r) reads, and that run and
\* the rendering visit as (col c, row r), holds the cell that construction
\* built from position c of line r, for every line r and position c.
C17_OneLinearization ==
    pc = "ready" =>
        \A r \in 0..(rows - 1), c \in 0..(cols - 1) :
            BuiltFrom(Idx(rows, c, r) + 1, TextAt(r, c))

-----------------------------------------------------------------------------
(* C18: the progress of the tokenizer.                                      *)

\* next returned nothing: nothing but whitespace was left
ReturnsNothing ==
    /\ lexDone'
    /\ lexOut' = lexOut
    /\ \A i \in DOMAIN lexSrc : lexSrc[i] \in Whitespace

\* next returned one item, a token or an error, and consumed a character
ReturnsOneItem ==
    /\ ~lexDone'
    /\ Len(lexOut') = Len(lexOut) + 1
    /\ Len(lexSrc') < Len(lexSrc)

\* C18: each call of next either returns nothing, only whitespace or nothing
\* being left, or consumes at least one character and returns one token or
\* one error; the items yielded are at most as many as the characters of the
\* input, errors included.
C18_Progress ==
    /\ [][ReturnsNothing \/ ReturnsOneItem]_vars
    /\ [](Len(lexOut) + Len(lexSrc) <= Len(lexIn))

\* the tokenizer has gone on after an error and has read its input to the end
C18_ProgressReached ==
    /\ lexDone
    /\ lexIn = <<"1", " ", "2", " ", "$">>
    /\ Len(lexOut) = 3
    /\ IsErr(lexOut[3])

-----------------------------------------------------------------------------
(* C19: tokens left over after an expression.                               *)

\* C19: a formula cell is built only when the parser has consumed every item
\* of the token stream of its text: the tokens of the text after '=' are the
\* tokens of the tree of the cell, none left over.
C19_WholeInput ==
    \A i \in Slots :
        IsFormula(i) =>
            Tokens(Tail(cells[i][2].source)) = Items(Unparse(cells[i][2].kind[2]))

=============================================================================
